---- MODULE Spec2Model ----
(***************************************************************************)
(* Model of gosr/tools/tssd.py: read density around transcription start    *)
(* sites (TSS) and the fragment size estimate derived from it.             *)
(*                                                                         *)
(*   gtf_to_tsspos        builds the unstranded GenomicArray of windows    *)
(*   make_density         counts read 5' ends per window position          *)
(*   determine_frag_size  brute force search of the optimal shift          *)
(*   output               normalises, combines and prints three blocks     *)
(*   process              the pipeline driver                              *)
(*                                                                         *)
(* Coordinates are 0-based and intervals are half open, as in HTSeq.       *)
(***************************************************************************)
EXTENDS Integers, Sequences, FiniteSets, TLC

(***************************************************************************)
(* Bounds                                                                  *)
(***************************************************************************)
\* args.upstream and args.downstream (defaults 2000), scaled down
Up == 1
Down == 2
\* process: extra = 200, scaled down
Extra == 1
\* longest annotation stream and longest alignment stream
MaxFeat == 2
MaxReads == 1
\* length of an aligned read
ReadLen == 2
\* determine_frag_size as a function: largest margin, largest core length
\* and largest number of counted reads that are enumerated
FragMaxE == 1
FragMaxN == 2
FragMaxHits == 4

Max(a, b) == IF a >= b THEN a ELSE b
Abs(a) == IF a >= 0 THEN a ELSE 0 - a

Chroms == {"chr1", "chr2"}
\* number of positions of a window built by process
WindowLen == Up + Down + 2 * Extra + 1
\* lengths of the feature intervals that are enumerated
FeatLens == {1, 2}
\* lowest feature start: keeps every window inside the chromosome
Lo == Max(Up, Down) + Extra
\* feature starts: windows at the two starts share one position or none,
\* depending on the strands and lengths of the features
FeatStarts == {Lo, Lo + WindowLen - 1}
\* highest coordinate any window or read can reach
MaxCoord == Lo + WindowLen + 1 + Max(Up, Down) + Extra

(***************************************************************************)
(* HTSeq values                                                            *)
(***************************************************************************)
GenomicInterval(chrom, start, end, strand) ==
    [chrom |-> chrom, start |-> start, end |-> end, strand |-> strand]

\* Python None, as an interval-shaped value no real interval equals
None == GenomicInterval("None", 0, 0, "None")

\* GenomicInterval.start_d: the first base in the direction of the strand
start_d(iv) == IF iv.strand = "-" THEN iv.end - 1 ELSE iv.start

\* HTSeq.GenomicArray("auto", typecode = 'O', stranded = False): one vector
\* per chromosome, every position None until something is stored
EmptyArray(maxc) == [c \in Chroms |-> [p \in 0..maxc |-> None]]

\* garray[iv].steps(): the maximal runs of equal values inside iv, in order
RECURSIVE StepsFrom(_, _, _, _)
StepsFrom(vec, p, stop, acc) ==
    IF p >= stop THEN acc
    ELSE IF acc # <<>> /\ acc[Len(acc)][2] = vec[p]
         THEN StepsFrom(vec, p + 1, stop,
                  [acc EXCEPT ![Len(acc)][1].end = p + 1])
         ELSE StepsFrom(vec, p + 1, stop,
                  Append(acc, <<[start |-> p, end |-> p + 1], vec[p]>>))

Steps(garray, iv) == StepsFrom(garray[iv.chrom], iv.start, iv.end, <<>>)

\* SetItem storing one position too many (a closed interval)
SetItem_closed(garray, iv, value) ==
    [garray EXCEPT ![iv.chrom] =
        [p \in DOMAIN @ |-> IF iv.start <= p /\ p <= iv.end THEN value ELSE @[p]]]

\* garray[iv] = value
SetItem(garray, iv, value) ==
    [garray EXCEPT ![iv.chrom] =
        [p \in DOMAIN @ |-> IF iv.start <= p /\ p < iv.end THEN value ELSE @[p]]]

\* garray[pos] for a GenomicPosition (the strand is ignored: stranded = False)
GetItem(garray, chrom, pos) == garray[chrom][pos]

(***************************************************************************)
(* gtf_to_tsspos                                                           *)
(***************************************************************************)
\* overlaps_any looking at the first step only
overlaps_any_first(garray, iv) ==
    LET steps == Steps(garray, iv)
    IN  IF steps[1][2] # None THEN TRUE ELSE FALSE

overlaps_any(garray, iv) ==
    LET steps == Steps(garray, iv)
    IN  IF Len(steps) > 1 \/ steps[1][2] # None THEN TRUE ELSE FALSE

Feature(type, exon_number, iv) ==
    [type |-> type, exon_number |-> exon_number, iv |-> iv]

NoFeature == Feature("None", "None", None)

\* window_of without the swap of upstream and downstream on "-"
window_of_noswap(feature, upstream, downstream) ==
    LET p == start_d(feature.iv)
    IN  IF feature.iv.strand \in {"+", "-"}
        THEN GenomicInterval(feature.iv.chrom, p - upstream,
                             p + downstream + 1, feature.iv.strand)
        ELSE None

\* the window of a first exon, lines 44-50 ("bad strand" has no window)
window_of(feature, upstream, downstream) ==
    LET p == start_d(feature.iv)
    IN  IF feature.iv.strand = "+"
        THEN GenomicInterval(feature.iv.chrom, p - upstream,
                             p + downstream + 1, "+")
        ELSE IF feature.iv.strand = "-"
        THEN GenomicInterval(feature.iv.chrom, p - downstream,
                             p + upstream + 1, "-")
        ELSE None

\* every exon taken for a first exon
is_tss_anyexon(feature) == feature.type = "exon"

is_tss(feature) == feature.type = "exon" /\ feature.exon_number = "1"

\* locals of gtf_to_tsspos before the loop
gtf_init(maxc) ==
    [tsspos |-> EmptyArray(maxc), n_feat |-> 0, n_tss |-> 0, n_used |-> 0,
     exit |-> 0]

\* gtf_iter that skips a first exon of unsupported strand and goes on
gtf_iter_skipbad(s, feature, upstream, downstream) ==
    LET s1 == [s EXCEPT !.n_feat = @ + 1]
    IN  IF is_tss(feature)
        THEN LET s2     == [s1 EXCEPT !.n_tss = @ + 1]
                 window == window_of(feature, upstream, downstream)
             IN  IF feature.iv.strand \notin {"+", "-"}
                 THEN s2
                 ELSE IF ~ overlaps_any(s2.tsspos, window)
                 THEN [s2 EXCEPT !.tsspos = SetItem(@, window, window),
                                 !.n_used = @ + 1]
                 ELSE s2
        ELSE s1

\* gtf_iter where a later overlapping window replaces the earlier one
gtf_iter_lastwins(s, feature, upstream, downstream) ==
    LET s1 == [s EXCEPT !.n_feat = @ + 1]
    IN  IF is_tss(feature)
        THEN LET s2     == [s1 EXCEPT !.n_tss = @ + 1]
                 window == window_of(feature, upstream, downstream)
             IN  IF feature.iv.strand \notin {"+", "-"}
                 THEN [s2 EXCEPT !.exit = 1]
                 ELSE IF ~ overlaps_any(s2.tsspos, window)
                 THEN [s2 EXCEPT !.tsspos = SetItem(@, window, window),
                                 !.n_used = @ + 1]
                 ELSE [s2 EXCEPT !.tsspos = SetItem(@, window, window)]
        ELSE s1

\* one iteration of the loop over the features
gtf_iter(s, feature, upstream, downstream) ==
    LET s1 == [s EXCEPT !.n_feat = @ + 1]
    IN  IF is_tss(feature)
        THEN LET s2     == [s1 EXCEPT !.n_tss = @ + 1]
                 window == window_of(feature, upstream, downstream)
             IN  IF feature.iv.strand \notin {"+", "-"}
                 THEN [s2 EXCEPT !.exit = 1]
                 ELSE IF ~ overlaps_any(s2.tsspos, window)
                 THEN [s2 EXCEPT !.tsspos = SetItem(@, window, window),
                                 !.n_used = @ + 1]
                 ELSE s2
        ELSE s1

\* the whole function on a finite stream
RECURSIVE gtf_fold(_, _, _, _)
gtf_fold(s, gtf, upstream, downstream) ==
    IF gtf = <<>> \/ s.exit # 0 THEN s
    ELSE gtf_fold(gtf_iter(s, Head(gtf), upstream, downstream), Tail(gtf),
                  upstream, downstream)

gtf_to_tsspos(gtf, upstream, downstream, maxc) ==
    gtf_fold(gtf_init(maxc), gtf, upstream, downstream)

(***************************************************************************)
(* make_density                                                            *)
(***************************************************************************)
Aln(aligned, iv) == [aligned |-> aligned, iv |-> iv]

NoAln == Aln(FALSE, None)

\* locd with the row of the "-" windows equal to the row of the "+" windows
locd_onerow == ("+" :> ("+" :> "left" @@ "-" :> "right")) @@
               ("-" :> ("+" :> "left" @@ "-" :> "right"))

\* lines 73-74
locd == ("+" :> ("+" :> "left"  @@ "-" :> "right")) @@
        ("-" :> ("+" :> "right" @@ "-" :> "left"))

\* numpy.zeros(n, dtype = "i"), indexed from 0
zeros(n) == [j \in 0..(n - 1) |-> 0]

\* arrays one bucket short of the window
density_init_short(up, down) ==
    [d |-> [left |-> zeros(up + down), right |-> zeros(up + down)],
     n_reads |-> 0, n_reads_on_tss |-> 0, exit |-> 0, oob |-> -1]

\* locals of make_density before the loop
density_init(up, down) ==
    [d |-> [left |-> zeros(up + down + 1), right |-> zeros(up + down + 1)],
     n_reads |-> 0, n_reads_on_tss |-> 0, exit |-> 0, oob |-> -1]

\* density_iter that counts every record in n_reads, mapped or not
density_iter_countall(s, aln, tsspos) ==
    LET s1 == [s EXCEPT !.n_reads = @ + 1]
    IN  IF aln.aligned
        THEN LET alniv == aln.iv
                 tss   == GetItem(tsspos, alniv.chrom, start_d(alniv))
             IN  IF tss # None
                 THEN LET s2            == [s1 EXCEPT !.n_reads_on_tss = @ + 1]
                          pos_in_window == Abs(start_d(alniv) - start_d(tss))
                          loc           == locd[tss.strand][alniv.strand]
                      IN  IF pos_in_window \in DOMAIN s2.d[loc]
                          THEN [s2 EXCEPT !.d[loc][pos_in_window] = @ + 1]
                          ELSE [s2 EXCEPT !.exit = 1, !.oob = pos_in_window]
                 ELSE s1
        ELSE s1

\* density_iter measuring from the lowest coordinate of the window, whatever
\* its strand
density_iter_start(s, aln, tsspos) ==
    IF aln.aligned
    THEN LET s1    == [s EXCEPT !.n_reads = @ + 1]
             alniv == aln.iv
             tss   == GetItem(tsspos, alniv.chrom, start_d(alniv))
         IN  IF tss # None
             THEN LET s2            == [s1 EXCEPT !.n_reads_on_tss = @ + 1]
                      pos_in_window == Abs(start_d(alniv) - tss.start)
                      loc           == locd[tss.strand][alniv.strand]
                  IN  IF pos_in_window \in DOMAIN s2.d[loc]
                      THEN [s2 EXCEPT !.d[loc][pos_in_window] = @ + 1]
                      ELSE [s2 EXCEPT !.exit = 1, !.oob = pos_in_window]
             ELSE s1
    ELSE s

\* density_iter that drops a record whose offset is out of bounds and goes on
density_iter_drop(s, aln, tsspos) ==
    IF aln.aligned
    THEN LET s1    == [s EXCEPT !.n_reads = @ + 1]
             alniv == aln.iv
             tss   == GetItem(tsspos, alniv.chrom, start_d(alniv))
         IN  IF tss # None
             THEN LET s2            == [s1 EXCEPT !.n_reads_on_tss = @ + 1]
                      pos_in_window == Abs(start_d(alniv) - start_d(tss))
                      loc           == locd[tss.strand][alniv.strand]
                  IN  IF pos_in_window \in DOMAIN s2.d[loc]
                      THEN [s2 EXCEPT !.d[loc][pos_in_window] = @ + 1]
                      ELSE s2
             ELSE s1
    ELSE s

\* one iteration of the loop over the alignment records
density_iter(s, aln, tsspos) ==
    IF aln.aligned
    THEN LET s1    == [s EXCEPT !.n_reads = @ + 1]
             alniv == aln.iv
             tss   == GetItem(tsspos, alniv.chrom, start_d(alniv))
         IN  IF tss # None
             THEN LET s2            == [s1 EXCEPT !.n_reads_on_tss = @ + 1]
                      pos_in_window == Abs(start_d(alniv) - start_d(tss))
                      loc           == locd[tss.strand][alniv.strand]
                  IN  IF pos_in_window \in DOMAIN s2.d[loc]
                      THEN [s2 EXCEPT !.d[loc][pos_in_window] = @ + 1]
                      ELSE [s2 EXCEPT !.exit = 1, !.oob = pos_in_window]
             ELSE s1
    ELSE s

\* the whole function on a finite stream
RECURSIVE density_fold(_, _, _)
density_fold(s, bam, tsspos) ==
    IF bam = <<>> \/ s.exit # 0 THEN s
    ELSE density_fold(density_iter(s, Head(bam), tsspos), Tail(bam), tsspos)

make_density(tsspos, bam, up, down) ==
    density_fold(density_init(up, down), bam, tsspos)

(***************************************************************************)
(* determine_frag_size                                                     *)
(***************************************************************************)
\* a slice bound as Python resolves it: negative bounds count from the end,
\* and every bound is clipped to 0..len
PyIdx(i, len) ==
    IF i < 0 THEN (IF i + len < 0 THEN 0 ELSE i + len)
    ELSE IF i > len THEN len ELSE i

\* x[a:b] of a 0-indexed array, as a sequence
Slice(x, a, b) ==
    LET len == Cardinality(DOMAIN x)
        lo  == PyIdx(a, len)
        hi  == PyIdx(b, len)
    IN  IF hi > lo THEN [k \in 1..(hi - lo) |-> x[lo + k - 1]] ELSE <<>>

\* The arrays have dtype "i", 32-bit integers.  x - y of two counts fits;
\* numpy.power(x - y, 2) keeps the width, so a square wraps around modulo
\* 2^32.  numpy.sum adds the wrapped squares as 64-bit integers.  A 64-bit
\* value is kept in two limbs, hi * 2^16 + lo with 0 <= lo < 2^16.
Limb == 256 * 256

Int64(hi, lo) == [hi |-> hi, lo |-> lo]

\* v * v as a signed 32-bit integer, for |v| < 2^31
wrap_sq(v) ==
    LET m   == Abs(v)
        h   == m \div Limb
        l   == m % Limb
        a   == l \div 256
        b   == l % 256
        lo0 == b * b + ((a * b) % 128) * 512
        hi0 == a * a + (a * b) \div 128 + 2 * ((h * l) % (Limb \div 2))
                   + lo0 \div Limb
        hi  == hi0 % Limb
    IN  Int64(IF hi >= Limb \div 2 THEN hi - Limb ELSE hi, lo0 % Limb)

add64(p, q) ==
    Int64(p.hi + q.hi + (p.lo + q.lo) \div Limb, (p.lo + q.lo) % Limb)

RECURSIVE SumSq(_, _, _)
SumSq(x, y, k) ==
    IF k = 0 THEN Int64(0, 0)
    ELSE add64(wrap_sq(x[k] - y[k]), SumSq(x, y, k - 1))

\* dist returns sqrt(sum((x - y)^2)).  The model keeps the radicand: sqrt is
\* strictly increasing on the non-negative sums that occur, and the sqrt of
\* a negative sum is nan.
dist(x, y) == SumSq(x, y, Len(x))

isnan(p) == p.hi < 0

\* p < q and p == q on the distances: every comparison with nan is false
flt(p, q) ==
    /\ ~ isnan(p) /\ ~ isnan(q)
    /\ (p.hi < q.hi \/ (p.hi = q.hi /\ p.lo < q.lo))

feq(p, q) == ~ isnan(p) /\ ~ isnan(q) /\ p = q

\* the largest element instead of the smallest
RECURSIVE SeqMax(_)
SeqMax(q) ==
    IF Len(q) = 1 THEN q[1]
    ELSE LET m == SeqMax(SubSeq(q, 1, Len(q) - 1))
         IN  IF flt(m, q[Len(q)]) THEN q[Len(q)] ELSE m

\* the builtin min: the first element, replaced by each later element that
\* compares less than it
RECURSIVE SeqMin(_)
SeqMin(q) ==
    IF Len(q) = 1 THEN q[1]
    ELSE LET m == SeqMin(SubSeq(q, 1, Len(q) - 1))
         IN  IF flt(q[Len(q)], m) THEN q[Len(q)] ELSE m

\* the loop with slices that start at extra - i and extra + i and have one
\* more element
RECURSIVE frag_loop_whole(_, _, _, _, _)
frag_loop_whole(x, y, extra, n, i) ==
    IF i < 0 THEN [peak_dist |-> <<>>, shift |-> <<>>]
    ELSE LET prev == frag_loop_whole(x, y, extra, n, i - 1)
             b1   == extra - i
             b2   == extra + i
         IN  [peak_dist |-> Append(prev.peak_dist,
                                dist(Slice(x, b1, b1 + n + 1),
                                     Slice(y, b2, b2 + n + 1))),
              shift     |-> Append(prev.shift, i)]

\* lines 113-117: the lists peak_dist and shift after i iterations
RECURSIVE frag_loop(_, _, _, _, _)
frag_loop(x, y, extra, n, i) ==
    IF i < 0 THEN [peak_dist |-> <<>>, shift |-> <<>>]
    ELSE LET prev == frag_loop(x, y, extra, n, i - 1)
             b1   == extra - i + 1
             b2   == extra + i + 1
         IN  [peak_dist |-> Append(prev.peak_dist,
                                dist(Slice(x, b1, b1 + n), Slice(y, b2, b2 + n))),
              shift     |-> Append(prev.shift, i)]

\* [(s, d) for s, d in zip(shift, peak_dist) if d == min(peak_dist)]
RECURSIVE optimal(_, _, _)
optimal(shift, peak_dist, k) ==
    IF k = 0 THEN <<>>
    ELSE LET rest == optimal(shift, peak_dist, k - 1)
         IN  IF feq(peak_dist[k], SeqMin(peak_dist))
             THEN Append(rest, <<shift[k], peak_dist[k]>>)
             ELSE rest

\* determine_frag_size returning the last of the tied shifts
determine_frag_size_last(density, extra) ==
    LET x    == density.left
        y    == density.right
        n    == Cardinality(DOMAIN x) - 2 * extra - 1
        l    == frag_loop(x, y, extra, n, extra)
        opt  == optimal(l.shift, l.peak_dist, Len(l.shift))
    IN  [peak_dist |-> l.peak_dist, shift |-> l.shift, optimal_shift |-> opt,
         warn |-> Len(opt) > 1,
         exit |-> IF Len(opt) = 0 THEN 1 ELSE 0,
         result |-> IF Len(opt) = 0 THEN -1 ELSE opt[Len(opt)][1] * 2]

\* optimal_shift[0] of an empty list raises IndexError: no handler catches
\* it, the interpreter ends with status 1 and nothing is returned
determine_frag_size(density, extra) ==
    LET x    == density.left
        y    == density.right
        n    == Cardinality(DOMAIN x) - 2 * extra - 1
        l    == frag_loop(x, y, extra, n, extra)
        opt  == optimal(l.shift, l.peak_dist, Len(l.shift))
    IN  [peak_dist |-> l.peak_dist, shift |-> l.shift, optimal_shift |-> opt,
         warn |-> Len(opt) > 1,
         exit |-> IF Len(opt) = 0 THEN 1 ELSE 0,
         result |-> IF Len(opt) = 0 THEN -1 ELSE opt[1][1] * 2]

(***************************************************************************)
(* output                                                                  *)
(***************************************************************************)
\* A normalised value (count / n_reads) * 1e9 / n_tss.  n_reads and n_tss
\* are the same for every value of a run, so a finite value is kept as its
\* count, in units of 1e9 / (n_reads * n_tss); a division by zero gives the
\* IEEE results numpy produces (nan for 0/0, inf otherwise), no exception.
Num(c) == [kind |-> "num", units |-> c]
NaN    == [kind |-> "nan", units |-> 0]
Inf    == [kind |-> "inf", units |-> 0]

normalise(c, n_reads, n_tss) ==
    IF n_reads = 0
    THEN IF c = 0 THEN NaN ELSE Inf
    ELSE IF n_tss = 0
         THEN IF c = 0 THEN NaN ELSE Inf
         ELSE Num(c)

\* float addition on these values
fadd(a, b) ==
    IF a.kind = "nan" \/ b.kind = "nan" THEN NaN
    ELSE IF a.kind = "inf" \/ b.kind = "inf" THEN Inf
    ELSE Num(a.units + b.units)

\* range(-up, down + 1), indexed from 0
pos_range(up, down) == [j \in 0..(up + down) |-> j - up]

Min(a, b) == IF a <= b THEN a ELSE b

\* output, line 126
smooth_filter_size == 101

\* dsp.savitzky_golay_filter(y, window_size, order): a sequence of the
\* length of y that always returns; the smoothed value at index j is kept
\* as the term <<"smoothed", j>>, its number is not modelled
savitzky_golay_filter(y, window_size, order) ==
    [j \in DOMAIN y |-> <<"smoothed", j>>]

\* one printed block: zip of the three slices [extra : extra + n]
block(pos, raw, smooth, extra, n, label) ==
    LET ps == Slice(pos, extra, extra + n)
        rs == Slice(raw, extra, extra + n)
        ss == Slice(smooth, extra, extra + n)
    IN  [k \in 1..Min(Len(ps), Min(Len(rs), Len(ss))) |->
            [pos |-> ps[k], raw |-> rs[k], smooth |-> ss[k], label |-> label]]

\* numpy's in-place add  target[a:b] += rhs : elementwise when the lengths
\* agree, a single value is broadcast, anything else raises ValueError
can_add(target, a, b, rhs) ==
    \/ Len(rhs) = Len(Slice(target, a, b))
    \/ Len(rhs) = 1

iadd(target, a, b, rhs) ==
    LET len == Cardinality(DOMAIN target)
        lo  == PyIdx(a, len)
        hi  == PyIdx(b, len)
    IN  [j \in DOMAIN target |->
            IF lo <= j /\ j < hi
            THEN fadd(target[j],
                      IF Len(rhs) = 1 THEN rhs[1] ELSE rhs[j - lo + 1])
            ELSE target[j]]

output(density, up, down, extra, frag_size, n_tss, n_reads) ==
    LET pos         == pos_range(up, down)
        n           == Cardinality(DOMAIN density.left) - 2 * extra - 1
        left        == [j \in DOMAIN density.left |->
                           normalise(density.left[j], n_reads, n_tss)]
        right       == [j \in DOMAIN density.right |->
                           normalise(density.right[j], n_reads, n_tss)]
        zero        == [j \in DOMAIN left |-> Num(0)]
        cs          == extra + 1
        left_start  == extra - (frag_size \div 2) + 1
        lpart       == Slice(left, left_start, left_start + n)
        right_start == extra + (frag_size \div 2) + 1
        rpart       == Slice(right, right_start, right_start + n)
        combined1   == iadd(zero, cs, cs + n, lpart)
        combined    == iadd(combined1, cs, cs + n, rpart)
        left_smooth  == savitzky_golay_filter(left, smooth_filter_size, 4)
        right_smooth == savitzky_golay_filter(right, smooth_filter_size, 4)
        combined_smooth ==
            savitzky_golay_filter(combined, smooth_filter_size, 4)
        two         == block(pos, left, left_smooth, extra, n, "left") \o
                       block(pos, right, right_smooth, extra, n, "right")
    IN  IF can_add(zero, cs, cs + n, lpart) /\ can_add(combined1, cs, cs + n, rpart)
        THEN [out |-> two \o block(pos, combined, combined_smooth, extra, n,
                                    "combined"),
              exit |-> 0]
        ELSE [out |-> two, exit |-> 1]

(***************************************************************************)
(* The input streams                                                       *)
(***************************************************************************)
Strands    == {"+", "-"}

\* the intervals of the first exons: both starts and every length on chr1,
\* one interval on chr2; either strand and an unsupported strand
TssIvs ==
    {GenomicInterval("chr1", st, st + ln, sd) :
        st \in FeatStarts, ln \in FeatLens, sd \in Strands \cup {"."}}
    \cup {GenomicInterval("chr2", Lo, Lo + 1, sd) : sd \in Strands \cup {"."}}

TssFeatures == {Feature("exon", "1", iv) : iv \in TssIvs}

\* records that are not a first exon
OtherFeatures ==
    {Feature(ty[1], ty[2], GenomicInterval("chr1", Lo, Lo + 1, sd)) :
        ty \in {<<"exon", "2">>, <<"CDS", "1">>}, sd \in {"+", "."}}

Features == TssFeatures \cup OtherFeatures

\* mapped reads of either strand: at every coordinate of chr1 and at the
\* feature start on chr2; and an unmapped read
Alns ==
    {Aln(TRUE, GenomicInterval("chr1", st, st + ReadLen, sd)) :
        st \in 0..(MaxCoord + 1 - ReadLen), sd \in Strands}
    \cup {Aln(TRUE, GenomicInterval("chr2", Lo, Lo + ReadLen, sd)) :
        sd \in Strands}
    \cup {NoAln}

\* args.frag_size: the sentinel -1, a supplied size whose half is within the
\* margin and one whose half is beyond it
ArgFragSizes == {-1, 2 * Extra + 1, 2 * Extra + 2}

(***************************************************************************)
(* State                                                                   *)
(***************************************************************************)
VARIABLES
    pc,               \* where process stands
    upstream,         \* gtf_to_tsspos: upstream, downstream
    downstream,
    up,               \* make_density and output: up, down
    down,
    extra,            \* process: extra
    arg_frag_size,    \* args.frag_size
    feature,          \* gtf_to_tsspos: the loop variable
    n_feat,
    n_tss,
    n_used,           \* n_tss_used in process
    tsspos,
    aln,              \* make_density: the loop variable
    bam_pos,          \* records taken from the alignment stream
    n_reads,
    n_reads_on_tss,
    d,                \* the arrays "left" and "right"
    frag_size,
    shift,            \* determine_frag_size: shift, peak_dist, optimal_shift
    peak_dist,
    optimal_shift,
    out,              \* the lines printed on standard output
    log,              \* logging.error and logging.warn calls
    exit_status

vars == <<pc, upstream, downstream, up, down, extra, arg_frag_size, feature,
          n_feat, n_tss, n_used, tsspos, aln, bam_pos, n_reads,
          n_reads_on_tss, d, frag_size, shift, peak_dist, optimal_shift, out,
          log, exit_status>>

params  == <<upstream, downstream, up, down, extra, arg_frag_size>>
gtfvars == <<feature, n_feat, n_tss, n_used, tsspos>>
bamvars == <<aln, bam_pos, n_reads, n_reads_on_tss, d>>
fragvars == <<frag_size, shift, peak_dist, optimal_shift>>

\* everything but the parameters, before process has done anything
Fresh ==
    /\ feature = NoFeature
    /\ n_feat = 0 /\ n_tss = 0 /\ n_used = 0
    /\ tsspos = EmptyArray(MaxCoord)
    /\ aln = NoAln
    /\ bam_pos = 0 /\ n_reads = 0 /\ n_reads_on_tss = 0
    /\ d = density_init(up, down).d
    /\ frag_size = -1
    /\ shift = <<>> /\ peak_dist = <<>> /\ optimal_shift = <<>>
    /\ out = <<>>
    /\ log = <<>>
    /\ exit_status = 0

\* process, lines 165-168: the extents handed to both passes include extra
Init ==
    /\ pc = "gtf"
    /\ extra = Extra
    /\ upstream = Up + Extra /\ downstream = Down + Extra
    /\ up = Up + Extra /\ down = Down + Extra
    /\ arg_frag_size \in ArgFragSizes
    /\ Fresh

(***************************************************************************)
(* Actions                                                                 *)
(***************************************************************************)
\* a feature taken from the stream while the alignment records are read
GtfStep_interleaved(f) ==
    /\ pc \in {"gtf", "bam"}
    /\ n_feat < MaxFeat
    /\ LET s == gtf_iter([tsspos |-> tsspos, n_feat |-> n_feat,
                          n_tss |-> n_tss, n_used |-> n_used, exit |-> 0],
                         f, upstream, downstream)
       IN  /\ feature' = f
           /\ n_feat' = s.n_feat
           /\ n_tss' = s.n_tss
           /\ n_used' = s.n_used
           /\ tsspos' = s.tsspos
           /\ IF s.exit # 0
              THEN /\ pc' = "exit"
                   /\ exit_status' = s.exit
                   /\ log' = Append(log, <<"bad strand found in GTF file",
                                           f.iv.strand, s.n_feat>>)
              ELSE UNCHANGED <<pc, exit_status, log>>
    /\ UNCHANGED <<params, bamvars, fragvars, out>>

\* gtf_to_tsspos: one feature of the stream, lines 40-57
GtfStep(f) ==
    /\ pc = "gtf"
    /\ n_feat < MaxFeat
    /\ LET s == gtf_iter([tsspos |-> tsspos, n_feat |-> n_feat,
                          n_tss |-> n_tss, n_used |-> n_used, exit |-> 0],
                         f, upstream, downstream)
       IN  /\ feature' = f
           /\ n_feat' = s.n_feat
           /\ n_tss' = s.n_tss
           /\ n_used' = s.n_used
           /\ tsspos' = s.tsspos
           /\ IF s.exit # 0
              THEN /\ pc' = "exit"
                   /\ exit_status' = s.exit
                   /\ log' = Append(log, <<"bad strand found in GTF file",
                                           f.iv.strand, s.n_feat>>)
              ELSE UNCHANGED <<pc, exit_status, log>>
    /\ UNCHANGED <<params, bamvars, fragvars, out>>

\* gtf_to_tsspos: the stream is exhausted, lines 58-60
GtfReturn ==
    /\ pc = "gtf"
    /\ pc' = "bam"
    /\ feature' = NoFeature
    /\ UNCHANGED <<n_feat, n_tss, n_used, tsspos>>
    /\ UNCHANGED <<params, bamvars, fragvars, out, log, exit_status>>

\* make_density: one alignment record, lines 78-94
BamStep(a) ==
    /\ pc = "bam"
    /\ bam_pos < MaxReads
    /\ LET s == density_iter([d |-> d, n_reads |-> n_reads,
                              n_reads_on_tss |-> n_reads_on_tss,
                              exit |-> 0, oob |-> -1], a, tsspos)
       IN  /\ aln' = a
           /\ bam_pos' = bam_pos + 1
           /\ n_reads' = s.n_reads
           /\ n_reads_on_tss' = s.n_reads_on_tss
           /\ d' = s.d
           /\ IF s.exit # 0
              THEN /\ pc' = "exit"
                   /\ exit_status' = s.exit
                   /\ log' = Append(log, <<"pos_in_window out of bounds",
                                           s.oob>>)
              ELSE UNCHANGED <<pc, exit_status, log>>
    /\ UNCHANGED <<params, gtfvars, fragvars, out>>

\* make_density: the stream is exhausted, lines 95-97
BamReturn ==
    /\ pc = "bam"
    /\ pc' = "frag"
    /\ aln' = NoAln
    /\ UNCHANGED <<bam_pos, n_reads, n_reads_on_tss, d>>
    /\ UNCHANGED <<params, gtfvars, fragvars, out, log, exit_status>>

\* process, lines 176-177: no size was supplied, estimate it
FragSizeEstimated ==
    /\ pc = "frag"
    /\ arg_frag_size = -1
    /\ LET r == determine_frag_size(d, extra)
       IN  /\ frag_size' = r.result
           /\ shift' = r.shift
           /\ peak_dist' = r.peak_dist
           /\ optimal_shift' = r.optimal_shift
           /\ log' = IF r.warn
                     THEN Append(log, <<"more than one possible shift size",
                                        r.optimal_shift>>)
                     ELSE log
           /\ pc' = IF r.exit = 0 THEN "output" ELSE "exit"
           /\ exit_status' = r.exit
    /\ UNCHANGED <<params, gtfvars, bamvars, out>>

\* the supplied size rounded down to an even number, as the estimator
\* would return it
FragSizeSupplied_even ==
    /\ pc = "frag"
    /\ arg_frag_size # -1
    /\ frag_size' = 2 * (arg_frag_size \div 2)
    /\ pc' = "output"
    /\ UNCHANGED <<shift, peak_dist, optimal_shift>>
    /\ UNCHANGED <<params, gtfvars, bamvars, out, log, exit_status>>

\* process, lines 178-179: the supplied size is used
FragSizeSupplied ==
    /\ pc = "frag"
    /\ arg_frag_size # -1
    /\ frag_size' = arg_frag_size
    /\ pc' = "output"
    /\ UNCHANGED <<shift, peak_dist, optimal_shift>>
    /\ UNCHANGED <<params, gtfvars, bamvars, out, log, exit_status>>

\* output called although the run has been aborted
Output_always ==
    /\ pc \in {"output", "exit"}
    /\ out = <<>>
    /\ LET r == output(d, up, down, extra, frag_size, n_used, n_reads)
       IN  /\ out' = r.out
           /\ exit_status' = IF pc = "exit" THEN exit_status ELSE r.exit
           /\ pc' = IF r.exit = 0 /\ pc # "exit" THEN "done" ELSE "exit"
    /\ UNCHANGED <<params, gtfvars, bamvars, fragvars, log>>

\* process, lines 180-181: output
Output ==
    /\ pc = "output"
    /\ LET r == output(d, up, down, extra, frag_size, n_used, n_reads)
       IN  /\ out' = r.out
           /\ exit_status' = r.exit
           /\ pc' = IF r.exit = 0 THEN "done" ELSE "exit"
    /\ UNCHANGED <<params, gtfvars, bamvars, fragvars, log>>

Next ==
    \/ \E f \in Features : GtfStep(f)
    \/ GtfReturn
    \/ \E a \in Alns : BamStep(a)
    \/ BamReturn
    \/ FragSizeEstimated
    \/ FragSizeSupplied
    \/ Output

Spec == Init /\ [][Next]_vars

(***************************************************************************)
(* gtf_to_tsspos and make_density as functions: the caller chooses the     *)
(* extents of each call, so the arrays may be shorter than the windows     *)
(***************************************************************************)
InitFn ==
    /\ pc = "gtf"
    /\ extra = Extra
    /\ upstream = Up + Extra /\ downstream = Down + Extra
    /\ up \in {Up + Extra - 1, Up + Extra} /\ down = Down + Extra
    /\ arg_frag_size = -1
    /\ Fresh

NextFn ==
    \/ \E f \in Features : GtfStep(f)
    \/ GtfReturn
    \/ \E a \in Alns : BamStep(a)
    \/ BamReturn

SpecFn == InitFn /\ [][NextFn]_vars

(***************************************************************************)
(* determine_frag_size as a function of arbitrary arrays                   *)
(***************************************************************************)
\* every array over 0..(cells - 1) whose counts sum to at most k
RECURSIVE Counts(_, _)
Counts(cells, k) ==
    IF k = 0 THEN {zeros(cells)}
    ELSE LET less == Counts(cells, k - 1)
         IN  less \cup {[a EXCEPT ![j] = @ + 1] : a \in less, j \in 0..(cells - 1)}

RECURSIVE Total(_, _)
Total(x, len) == IF len = 0 THEN 0 ELSE x[len - 1] + Total(x, len - 1)

InitFrag ==
    /\ pc = "frag"
    /\ arg_frag_size = -1
    /\ extra \in 0..FragMaxE
    /\ \E core \in 1..FragMaxN :
         /\ up = extra /\ down = core - 1 + extra
         /\ upstream = up /\ downstream = down
         /\ \E c \in Counts(2 * (core + 2 * extra), FragMaxHits) :
              LET len == core + 2 * extra
              IN  /\ d = [left  |-> [j \in 0..(len - 1) |-> c[j]],
                          right |-> [j \in 0..(len - 1) |-> c[len + j]]]
                  /\ n_reads = Total(c, 2 * len)
                  /\ n_reads_on_tss = Total(c, 2 * len)
                  /\ bam_pos = Total(c, 2 * len)
    /\ feature = NoFeature
    /\ n_feat = 0 /\ n_tss = 0 /\ n_used = 0
    /\ tsspos = EmptyArray(MaxCoord)
    /\ aln = NoAln
    /\ frag_size = -1
    /\ shift = <<>> /\ peak_dist = <<>> /\ optimal_shift = <<>>
    /\ out = <<>>
    /\ log = <<>>
    /\ exit_status = 0

NextFrag == FragSizeEstimated

SpecFrag == InitFrag /\ [][NextFrag]_vars

(***************************************************************************)
(* determine_frag_size on arrays that are a multiple of small arrays       *)
(***************************************************************************)
\* the factors: 46341 is the least integer whose square exceeds 2^31 - 1
Scales == {1, 2, 3, 46341}

InitScale ==
    /\ pc = "frag"
    /\ arg_frag_size = -1
    /\ extra \in 0..FragMaxE
    /\ \E core \in 1..FragMaxN, k \in Scales :
         /\ up = extra /\ down = core - 1 + extra
         /\ upstream = up /\ downstream = down
         /\ \E c \in Counts(2 * (core + 2 * extra), FragMaxHits) :
              LET len == core + 2 * extra
              IN  /\ d = [left  |-> [j \in 0..(len - 1) |-> k * c[j]],
                          right |-> [j \in 0..(len - 1) |-> k * c[len + j]]]
                  /\ n_reads = k * Total(c, 2 * len)
                  /\ n_reads_on_tss = k * Total(c, 2 * len)
                  /\ bam_pos = k * Total(c, 2 * len)
    /\ feature = NoFeature
    /\ n_feat = 0 /\ n_tss = 0 /\ n_used = 0
    /\ tsspos = EmptyArray(MaxCoord)
    /\ aln = NoAln
    /\ frag_size = -1
    /\ shift = <<>> /\ peak_dist = <<>> /\ optimal_shift = <<>>
    /\ out = <<>>
    /\ log = <<>>
    /\ exit_status = 0

NextScale == FragSizeEstimated

SpecScale == InitScale /\ [][NextScale]_vars

(***************************************************************************)
(* Vocabulary of the properties, independent of the operators above        *)
(***************************************************************************)
Coords == 0..MaxCoord

\* window w covers position p of chromosome c
Covers(w, c, p) == w.chrom = c /\ w.start <= p /\ p < w.end

\* two intervals share a position; the strands play no part
Overlap(w1, w2) ==
    /\ w1.chrom = w2.chrom
    /\ w1.start < w2.end
    /\ w2.start < w1.end

\* the windows an index holds
WindowsOf(garray) == {garray[c][p] : c \in Chroms, p \in Coords} \ {None}

Retained == WindowsOf(tsspos)

\* the index after window w has been stored on top of garray
WithWindow(garray, w) ==
    [c \in Chroms |-> [p \in Coords |->
        IF Covers(w, c, p) THEN w ELSE garray[c][p]]]

\* a step of gtf_to_tsspos that read a first exon of a supported strand
TssStep ==
    /\ pc = "gtf"
    /\ n_feat' = n_feat + 1
    /\ feature'.type = "exon" /\ feature'.exon_number = "1"
    /\ feature'.iv.strand \in Strands

\* the 5' boundary of an interval: its first base on "+", its last on "-"
FivePrime(iv) == IF iv.strand = "+" THEN iv.start ELSE iv.end - 1

(***************************************************************************)
(* C1  tryClaim.  A window that overlaps a stored window of the same       *)
(* chromosome, whatever the strands, is rejected and the index is exactly  *)
(* what it was; any other window is stored, as its own value, and the      *)
(* claim succeeds.  Windows of other chromosomes never cause a rejection.  *)
(***************************************************************************)
C1_Step ==
    TssStep =>
        LET w == window_of(feature', upstream, downstream)
        IN  IF \E r \in Retained : r.chrom = w.chrom /\ Overlap(r, w)
            THEN tsspos' = tsspos /\ n_used' = n_used
            ELSE tsspos' = WithWindow(tsspos, w) /\ n_used' = n_used + 1

C1_TryClaim == [][C1_Step]_vars

\* a "-" window was rejected because of a stored "+" window
C1_Witness ==
    /\ pc = "gtf"
    /\ n_tss = 2 /\ n_used = 1
    /\ is_tss(feature) /\ feature.iv.strand = "-"
    /\ \E r \in Retained :
         /\ r.strand = "+"
         /\ Overlap(r, window_of(feature, upstream, downstream))

(***************************************************************************)
(* C2  The retained windows are pairwise disjoint: every position is       *)
(* covered by at most one of them, and the point query returns that        *)
(* window where there is one and None elsewhere.                           *)
(***************************************************************************)
C2_Disjoint ==
    LET ret == Retained
    IN  /\ Cardinality(ret) = n_used
        /\ \A w1, w2 \in ret : w1 # w2 => ~ Overlap(w1, w2)
        /\ \A c \in Chroms, p \in Coords :
             LET cov == {w \in ret : Covers(w, c, p)}
             IN  /\ Cardinality(cov) <= 1
                 /\ cov = {} => GetItem(tsspos, c, p) = None
                 /\ cov # {} => GetItem(tsspos, c, p) \in cov

\* two windows next to each other on one chromosome
C2_Witness ==
    \E w1, w2 \in Retained :
        /\ w1.chrom = w2.chrom
        /\ w1.end = w2.start
        /\ GetItem(tsspos, w1.chrom, w1.end - 1) = w1
        /\ GetItem(tsspos, w1.chrom, w2.start) = w2

(***************************************************************************)
(* C3  First claim wins, in input order.  A candidate is retained if and   *)
(* only if it overlaps no window retained before it; a rejected candidate  *)
(* is dropped and the earlier windows stay as they were.  Scenario B: two  *)
(* overlapping "+" first exons give n_tss = 2, n_used = 1 and the window   *)
(* of the first.                                                           *)
(***************************************************************************)
C3_Step ==
    TssStep =>
        LET w    == window_of(feature', upstream, downstream)
            free == \A r \in Retained : ~ Overlap(r, w)
        IN  /\ n_tss' = n_tss + 1
            /\ (n_used' = n_used + 1) <=> free
            /\ (n_used' = n_used) <=> ~ free
            /\ WindowsOf(tsspos') = IF free THEN Retained \cup {w} ELSE Retained
            /\ \A r \in Retained, c \in Chroms, p \in Coords :
                 Covers(r, c, p) => tsspos'[c][p] = r

\* Scenario B on every pair of "+" first exons whose windows overlap
C3_ScenarioB ==
    \A f1, f2 \in TssFeatures :
        LET w1 == window_of(f1, upstream, downstream)
            w2 == window_of(f2, upstream, downstream)
        IN  (f1.iv.strand = "+" /\ f2.iv.strand = "+" /\ Overlap(w1, w2)) =>
                LET r == gtf_to_tsspos(<<f1, f2>>, upstream, downstream, MaxCoord)
                IN  /\ r.n_feat = 2
                    /\ r.n_tss = 2
                    /\ r.n_used = 1
                    /\ WindowsOf(r.tsspos) = {w1}

C4_Step ==
    (TssStep /\ n_used' = n_used + 1) =>
        LET iv      == feature'.iv
            anchor  == FivePrime(iv)
            first   == IF iv.strand = "+" THEN anchor - (Up + Extra)
                                          ELSE anchor - (Down + Extra)
            last    == IF iv.strand = "+" THEN anchor + (Down + Extra)
                                          ELSE anchor + (Up + Extra)
            claimed == {cp \in Chroms \X Coords :
                            tsspos'[cp[1]][cp[2]] # tsspos[cp[1]][cp[2]]}
        IN  /\ claimed = {iv.chrom} \X (first..last)
            /\ Cardinality(claimed) = Up + Down + 2 * Extra + 1
            /\ \A cp \in claimed :
                 LET w == tsspos'[cp[1]][cp[2]]
                 IN  /\ w.strand = iv.strand
                     /\ w.chrom = iv.chrom
                     /\ w.start = first
                     /\ w.end = last + 1

C4_Window == [][C4_Step]_vars

\* a "-" first exon of two bases has just been given its window
C4_Witness ==
    /\ pc = "gtf"
    /\ is_tss(feature) /\ feature.iv.strand = "-"
    /\ feature.iv.end - feature.iv.start = 2
    /\ n_used = 1 /\ n_tss = 1
    /\ GetItem(tsspos, feature.iv.chrom, feature.iv.end - 1).strand = "-"

(***************************************************************************)
(* Steps of make_density                                                   *)
(***************************************************************************)
\* a step of make_density that read a mapped record lying in a window
HitStep ==
    /\ pc = "bam"
    /\ bam_pos' = bam_pos + 1
    /\ aln'.aligned
    /\ tsspos[aln'.iv.chrom][FivePrime(aln'.iv)] # None

\* the window that record lies in
HitWindow == tsspos[aln'.iv.chrom][FivePrime(aln'.iv)]

\* the TSS a window was built around
AnchorOf(w) ==
    IF w.strand = "+" THEN w.start + upstream ELSE w.end - 1 - upstream

\* position of a base relative to the TSS of window w, counted in the
\* direction of transcription (negative upstream, positive downstream)
RelPos(w, p) == IF w.strand = "+" THEN p - AnchorOf(w) ELSE AnchorOf(w) - p

\* the bucket make_density counts the record in
HitIndex == upstream + RelPos(HitWindow, FivePrime(aln'.iv))

\* the table of section 4.3
Bucket(wstrand, rstrand) ==
    CASE wstrand = "+" /\ rstrand = "+" -> "left"
      [] wstrand = "+" /\ rstrand = "-" -> "right"
      [] wstrand = "-" /\ rstrand = "+" -> "right"
      [] wstrand = "-" /\ rstrand = "-" -> "left"

OtherArray(a) == IF a = "left" THEN "right" ELSE "left"

(***************************************************************************)
(* C5  For a mapped record in a window the array is the one the table      *)
(* gives for (window strand, record strand); exactly one bucket of that    *)
(* array grows by exactly 1 and the other array does not change.           *)
(***************************************************************************)
C5_Step ==
    HitStep =>
        LET arr == Bucket(HitWindow.strand, aln'.iv.strand)
        IN  /\ \E j \in DOMAIN d[arr] : d'[arr] = [d[arr] EXCEPT ![j] = @ + 1]
            /\ d'[OtherArray(arr)] = d[OtherArray(arr)]

C5_Table == [][C5_Step]_vars

\* a "+" record in a "-" window was counted in "right"
C5_Witness ==
    /\ pc = "bam"
    /\ aln.aligned /\ aln.iv.strand = "+"
    /\ GetItem(tsspos, aln.iv.chrom, aln.iv.start).strand = "-"
    /\ Total(d.right, up + down + 1) = 1
    /\ Total(d.left, up + down + 1) = 0

(***************************************************************************)
(* C6  As claimed: the bucket index of a matched record is                 *)
(* |record 5' position - window anchor|.                                   *)
(***************************************************************************)
C6_Claimed_Step ==
    HitStep =>
        LET arr == Bucket(HitWindow.strand, aln'.iv.strand)
            j   == Abs(FivePrime(aln'.iv) - AnchorOf(HitWindow))
        IN  d' = [d EXCEPT ![arr][j] = @ + 1]

C6_Claimed == [][C6_Claimed_Step]_vars

\* Scenario A as the code runs it: one "+" TSS at chr1:1000, extents 5 and
\* 5 with no margin, reads at -3 (+), -3 (+) and +2 (-) of the anchor
ScenarioA ==
    LET gtf == <<Feature("exon", "1", GenomicInterval("chr1", 1000, 1100, "+"))>>
        bam == <<Aln(TRUE, GenomicInterval("chr1", 997, 1033, "+")),
                 Aln(TRUE, GenomicInterval("chr1", 997, 1033, "+")),
                 Aln(TRUE, GenomicInterval("chr1", 967, 1003, "-"))>>
        g   == gtf_to_tsspos(gtf, 5, 5, 1010)
        r   == make_density(g.tsspos, bam, 5, 5)
    IN  [left |-> r.d.left, right |-> r.d.right, n_reads |-> r.n_reads,
         n_tss_used |-> g.n_used, exit |-> r.exit]

(***************************************************************************)
(* C6  As the code has it: the bucket index of a matched record is the     *)
(* distance of its 5' position from the 5' edge of the window, that is     *)
(* (upstream + margin) plus its position relative to the anchor in the     *)
(* direction of transcription.  Scenario A gives left[2] = 2,              *)
(* right[7] = 1, every other bucket 0, n_reads = 3 and n_tss_used = 1.     *)
(***************************************************************************)
C6_Step ==
    HitStep =>
        LET arr == Bucket(HitWindow.strand, aln'.iv.strand)
        IN  /\ HitIndex \in 0..(up + down)
            /\ d' = [d EXCEPT ![arr][HitIndex] = @ + 1]

C6_ScenarioA ==
    /\ ScenarioA.exit = 0
    /\ ScenarioA.n_reads = 3
    /\ ScenarioA.n_tss_used = 1
    /\ \A j \in 0..10 :
         /\ ScenarioA.left[j]  = (IF j = 2 THEN 2 ELSE 0)
         /\ ScenarioA.right[j] = (IF j = 7 THEN 1 ELSE 0)

C6_Offset ==
    /\ (pc = "gtf" /\ n_feat = 0) => C6_ScenarioA
    /\ [][C6_Step]_vars

\* a "-" record at the anchor of a "-" window of a two-base first exon was
\* counted at index upstream + margin of "left"
C6_Witness ==
    /\ pc = "bam"
    /\ aln.aligned /\ aln.iv.strand = "-"
    /\ LET w == GetItem(tsspos, aln.iv.chrom, aln.iv.end - 1)
       IN  /\ w.strand = "-"
           /\ aln.iv.end - 1 = w.end - 1 - upstream
    /\ d.left[upstream] = 1

(***************************************************************************)
(* C7  As claimed: a matched record whose offset is outside the arrays is  *)
(* logged and dropped, and the run goes on with the next record.           *)
(***************************************************************************)
OutOfBoundsStep == HitStep /\ HitIndex \notin 0..(up + down)

C7_Claimed_Step ==
    OutOfBoundsStep =>
        /\ pc' = "bam"
        /\ exit_status' = 0
        /\ d' = d

C7_Claimed == [][C7_Claimed_Step]_vars

(***************************************************************************)
(* C7  As the code has it: a matched record whose offset is outside the    *)
(* arrays is logged and aborts the run with exit status 1.  No bucket      *)
(* changes, the record has been counted in n_reads and n_reads_on_tss,     *)
(* and no later record is processed.                                       *)
(***************************************************************************)
C7_Step ==
    /\ OutOfBoundsStep =>
         /\ pc' = "exit"
         /\ exit_status' = 1
         /\ d' = d
         /\ n_reads' = n_reads + 1
         /\ n_reads_on_tss' = n_reads_on_tss + 1
         /\ log' = Append(log, <<"pos_in_window out of bounds", HitIndex>>)
    /\ pc = "exit" => UNCHANGED vars

C7_Abort == [][C7_Step]_vars

\* the run was aborted by a record at the far edge of a window
C7_Witness ==
    /\ pc = "exit"
    /\ exit_status = 1
    /\ aln.aligned
    /\ GetItem(tsspos, aln.iv.chrom, FivePrime(aln.iv)) # None
    /\ log = <<<<"pos_in_window out of bounds", up + down + 1>>>>

(***************************************************************************)
(* The shift search, stated on the arrays                                  *)
(***************************************************************************)
ArrayLen == up + down + 1
\* the core length N of an array of length N + 2E
CoreLen  == ArrayLen - 2 * extra
Shifts   == 0..extra

\* the estimator has run and its result is in frag_size
Estimated == pc = "output" /\ arg_frag_size = -1

\* a distance of the list peak_dist as an integer
Radicand(p) == p.hi * Limb + p.lo

RECURSIVE SqDiff(_, _, _)
\* sum over k < len of (left[b1 + k] - right[b2 + k])^2
SqDiff(b1, b2, len) ==
    IF len <= 0 THEN 0
    ELSE (d.left[b1 + len - 1] - d.right[b2 + len - 1]) *
         (d.left[b1 + len - 1] - d.right[b2 + len - 1])
         + SqDiff(b1, b2, len - 1)

\* section 4.4: slices of the core length N that start at E - s and E + s
RefDist(s)  == SqDiff(extra - s, extra + s, CoreLen)
\* the code: slices of N - 1 elements that start at E - s + 1 and E + s + 1
CodeDist(s) == SqDiff(extra - s + 1, extra + s + 1, CoreLen - 1)

(***************************************************************************)
(* C8  As claimed: the result is 2 s* where s* minimises, over 0..E, the   *)
(* distance between left[E-s : E-s+N] and right[E+s : E+s+N]; every s in   *)
(* 0..E is evaluated exactly once.                                         *)
(***************************************************************************)
C8_Claimed ==
    Estimated =>
        /\ shift = [k \in 1..(extra + 1) |-> k - 1]
        /\ \E s \in Shifts :
             /\ frag_size = 2 * s
             /\ \A t \in Shifts : RefDist(s) <= RefDist(t)

(***************************************************************************)
(* C8  As the code has it: the result is 2 s* where s* minimises, over     *)
(* 0..E, the distance between the N - 1 elements left[E-s+1 : E-s+N] and   *)
(* right[E+s+1 : E+s+N]; every s in 0..E is evaluated exactly once.        *)
(***************************************************************************)
C8_Search ==
    Estimated =>
        /\ shift = [k \in 1..(extra + 1) |-> k - 1]
        /\ peak_dist = [k \in 1..(extra + 1) |-> Int64(0, CodeDist(k - 1))]
        /\ \E s \in Shifts :
             /\ frag_size = 2 * s
             /\ \A t \in Shifts : CodeDist(s) <= CodeDist(t)

\* the search has chosen a shift that does not minimise the distance of
\* section 4.4
C8_Witness ==
    /\ Estimated
    /\ extra >= 1 /\ CoreLen >= 2
    /\ \E t \in Shifts : RefDist(t) < RefDist(frag_size \div 2)

(***************************************************************************)
(* C9  Tie-break.  When several shifts attain the minimum distance the     *)
(* result is twice the smallest of them, a warning that lists all of them  *)
(* is logged and the run goes on; the warning is logged if and only if     *)
(* more than one shift attains the minimum.                                *)
(***************************************************************************)
Tied ==
    {s \in Shifts :
        \A t \in Shifts : Radicand(peak_dist[s + 1]) <= Radicand(peak_dist[t + 1])}

C9_TieBreak ==
    Estimated =>
        /\ frag_size \div 2 \in Tied
        /\ frag_size = 2 * (frag_size \div 2)
        /\ \A s \in Tied : frag_size \div 2 <= s
        /\ exit_status = 0
        /\ IF Cardinality(Tied) > 1
           THEN /\ Len(log) = 1
                /\ log[1][1] = "more than one possible shift size"
                /\ Len(log[1][2]) = Cardinality(Tied)
                /\ {log[1][2][k][1] : k \in 1..Len(log[1][2])} = Tied
           ELSE log = <<>>

\* two shifts tied on arrays that hold reads, and the smaller one was taken
C9_Witness ==
    /\ Estimated
    /\ Cardinality(Tied) = 2
    /\ Len(log) = 1
    /\ frag_size = 0
    /\ Radicand(peak_dist[1]) > 0

(***************************************************************************)
(* C10  Identical left and right arrays give fragment size 0, for every    *)
(* margin and every content.                                               *)
(***************************************************************************)
C10_Identical ==
    (Estimated /\ d.left = d.right) => frag_size = 0

\* identical arrays with reads, a margin, and shifts that do not tie
C10_Witness ==
    /\ Estimated
    /\ d.left = d.right
    /\ extra >= 1
    /\ frag_size = 0
    /\ Len(optimal_shift) = 1
    /\ \E j \in DOMAIN d.left : d.left[j] > 0

(***************************************************************************)
(* C11  Scaling.  For every pair of arrays and every positive integer k    *)
(* the estimator gives the same result for (k * left, k * right) as for    *)
(* (left, right): the same fragment size and the same set of shifts tied   *)
(* for the minimum.  Stated on the arrays d of a finished estimation and   *)
(* every factor g that divides them: d is g times the arrays d / g.        *)
(***************************************************************************)
\* the estimator has run on d, to its return or to an exception
EstimatorDone ==
    pc \in {"output", "exit"} /\ arg_frag_size = -1 /\ shift # <<>>

DividesAll(g) ==
    \A j \in DOMAIN d.left : d.left[j] % g = 0 /\ d.right[j] % g = 0

DividedBy(g) ==
    [left  |-> [j \in DOMAIN d.left |-> d.left[j] \div g],
     right |-> [j \in DOMAIN d.right |-> d.right[j] \div g]]

ShiftsOf(opt) == {opt[k][1] : k \in 1..Len(opt)}

C11_Scaling ==
    EstimatorDone =>
        \A g \in Scales :
            DividesAll(g) =>
                LET r == determine_frag_size(DividedBy(g), extra)
                IN  /\ r.exit = exit_status
                    /\ r.result = frag_size
                    /\ ShiftsOf(r.optimal_shift) = ShiftsOf(optimal_shift)

(***************************************************************************)
(* C12  Zero denominators.  When n_reads = 0 or n_tss_used = 0 rendering   *)
(* raises an error and emits no data line: in such a run no line is ever   *)
(* written and the run does not end normally.                              *)
(***************************************************************************)
C12_ZeroGuard ==
    (n_reads = 0 \/ n_used = 0) => (out = <<>> /\ pc # "done")

(***************************************************************************)
(* C13  Bad strand.  Vocabulary: a step of the loop over the features.     *)
(***************************************************************************)
FeatureStep == pc = "gtf" /\ n_feat' = n_feat + 1

BadStrand(f) == f.iv.strand \notin {"+", "-"}

\* the abort: status 1, the strand and the 1-based count of the features
\* read so far are logged, nothing is claimed
BadStrandAbort ==
    /\ pc' = "exit"
    /\ exit_status' = 1
    /\ log' = Append(log, <<"bad strand found in GTF file",
                            feature'.iv.strand, n_feat + 1>>)
    /\ tsspos' = tsspos
    /\ n_used' = n_used

\* the loop goes on to the next feature
GoesOn == pc' = "gtf" /\ exit_status' = 0 /\ log' = log

\* As claimed: every feature of a strand other than "+" and "-" aborts
\* the run when it is reached.
C13_Claimed_Step ==
    FeatureStep => IF BadStrand(feature') THEN BadStrandAbort ELSE GoesOn

C13_Claimed == [][C13_Claimed_Step]_vars

(***************************************************************************)
(* C13  As the code has it: a first exon (type exon, exon_number "1") of   *)
(* a strand other than "+" and "-" aborts the run when it is reached, with *)
(* status 1, the 1-based count n_feat reported and no window claimed; any  *)
(* other feature is passed over whatever its strand; after the abort no    *)
(* feature is processed.                                                   *)
(***************************************************************************)
C13_Step ==
    /\ FeatureStep =>
           IF is_tss(feature') /\ BadStrand(feature')
           THEN BadStrandAbort
           ELSE GoesOn
    /\ pc = "exit" => (n_feat' = n_feat /\ tsspos' = tsspos)

C13_BadStrand == [][C13_Step]_vars

\* the second feature was a first exon of strand ".": the run has ended,
\* the window of the first feature is still the only one
C13_Witness ==
    /\ pc = "exit"
    /\ exit_status = 1
    /\ is_tss(feature) /\ feature.iv.strand = "."
    /\ log = <<<<"bad strand found in GTF file", ".", 2>>>>
    /\ n_feat = 2 /\ n_tss = 2 /\ n_used = 1

(***************************************************************************)
(* C14  Blocks.  In every run that reaches rendering the output is three   *)
(* consecutive blocks, left then right then combined: every line labelled  *)
(* left precedes every line labelled right, which precedes every line      *)
(* labelled combined; the blocks have the same number of lines and each    *)
(* lists its positions in increasing order.                                *)
(***************************************************************************)
LinesOf(label) == {k \in 1..Len(out) : out[k].label = label}

Labels == <<"left", "right", "combined">>

\* the lines written so far are three blocks
ThreeBlocks ==
    /\ \A k \in 1..Len(out) : out[k].label \in {"left", "right", "combined"}
    /\ \A i, j \in 1..3 :
         i < j => \A a \in LinesOf(Labels[i]), b \in LinesOf(Labels[j]) : a < b
    /\ \A i \in 1..3 :
         /\ LinesOf(Labels[i]) # {}
         /\ Cardinality(LinesOf(Labels[i])) = Cardinality(LinesOf("left"))
         /\ \A a, b \in LinesOf(Labels[i]) : a < b => out[a].pos < out[b].pos

\* whatever output has written when it ends, by return or by exception
C14_Step == pc = "output" => ThreeBlocks'

C14_Blocks == [][C14_Step]_vars

(***************************************************************************)
(* C15  Fragment size selection.  The estimator is run if and only if the  *)
(* supplied fragment size is the sentinel -1; for any other supplied value *)
(* the estimator is not run and rendering uses the supplied value          *)
(* unchanged.                                                              *)
(***************************************************************************)
\* the traces the estimator leaves: its lists, one entry per shift
EstimatorRan ==
    /\ shift = [k \in 1..(extra + 1) |-> k - 1]
    /\ Len(peak_dist) = extra + 1
    /\ Len(optimal_shift) >= 1

EstimatorNotRun ==
    /\ shift = <<>> /\ peak_dist = <<>> /\ optimal_shift = <<>>
    /\ \A k \in 1..Len(log) : log[k][1] # "more than one possible shift size"

\* process is past the choice of line 176
PastChoice == pc \in {"output", "done"} \/ (pc = "exit" /\ out # <<>>)

C15_Selection ==
    /\ PastChoice => (EstimatorRan <=> arg_frag_size = -1)
    /\ (PastChoice /\ arg_frag_size = -1) =>
           frag_size = 2 * optimal_shift[1][1]
    /\ (PastChoice /\ arg_frag_size # -1) =>
           /\ EstimatorNotRun
           /\ frag_size = arg_frag_size
           /\ pc # "output" =>
                  out = output(d, up, down, extra, arg_frag_size, n_used,
                               n_reads).out
    /\ ~ PastChoice => EstimatorNotRun \/ pc = "exit"

\* a run with reads on a window has rendered with a supplied odd size, and
\* the estimator has left no trace
C15_Witness ==
    /\ pc = "done"
    /\ arg_frag_size = 2 * Extra + 1
    /\ frag_size = arg_frag_size
    /\ EstimatorNotRun
    /\ n_reads_on_tss > 0
    /\ \E k \in 1..Len(out) : out[k].label = "combined"

(***************************************************************************)
(* C16  Phases.  Every claim on the index happens before the first point   *)
(* query of the accumulator; from the start of accumulation onward the     *)
(* index and n_tss_used stay as they are, whatever records are processed,  *)
(* and window building is never resumed.                                   *)
(***************************************************************************)
C16_Step ==
    /\ (tsspos' # tsspos \/ n_used' # n_used \/ n_tss' # n_tss
            \/ n_feat' # n_feat) =>
           (pc = "gtf" /\ bam_pos = 0 /\ n_reads = 0)
    /\ pc # "gtf" =>
           (pc' # "gtf" /\ tsspos' = tsspos /\ n_used' = n_used)
    /\ (bam_pos' # bam_pos \/ n_reads' # n_reads \/ d' # d) => pc = "bam"

C16_Phases == [][C16_Step]_vars

\* a record has been counted on a window that was claimed before the
\* accumulation began, and the index still holds exactly that window
C16_Witness ==
    /\ pc \in {"bam", "frag", "output", "done"}
    /\ bam_pos >= 1
    /\ n_reads_on_tss >= 1
    /\ n_used >= 1
    /\ Cardinality(Retained) = n_used

(***************************************************************************)
(* C17  Unmapped records.  An unmapped record changes nothing in the       *)
(* accumulator: the arrays, n_reads and n_reads_on_tss stay as they are    *)
(* and the loop goes on.  n_reads grows by exactly 1 for every mapped      *)
(* record, n_reads_on_tss by exactly 1 for every mapped record whose 5'    *)
(* position lies in a window, and a mapped record outside every window     *)
(* leaves the arrays as they are.                                          *)
(***************************************************************************)
RecordStep == pc = "bam" /\ bam_pos' = bam_pos + 1

C17_Step ==
    RecordStep =>
        IF ~ aln'.aligned
        THEN /\ d' = d
             /\ n_reads' = n_reads
             /\ n_reads_on_tss' = n_reads_on_tss
             /\ pc' = "bam" /\ log' = log /\ exit_status' = 0
        ELSE /\ n_reads' = n_reads + 1
             /\ IF tsspos[aln'.iv.chrom][FivePrime(aln'.iv)] # None
                THEN n_reads_on_tss' = n_reads_on_tss + 1
                ELSE /\ n_reads_on_tss' = n_reads_on_tss
                     /\ d' = d
                     /\ pc' = "bam"

C17_Unmapped == [][C17_Step]_vars

\* an unmapped record has been taken from the stream: it is counted among
\* the records read and nowhere else, although a window exists
C17_Witness ==
    /\ pc = "bam"
    /\ bam_pos = 1
    /\ aln = NoAln
    /\ n_used >= 1
    /\ n_reads = 0 /\ n_reads_on_tss = 0
    /\ d = density_init(up, down).d

(***************************************************************************)
(* C18  No partial output.  A run that is aborted during window building   *)
(* (bad strand) or during accumulation has written no output line: lines   *)
(* are written by output only, which is reached only after the loop over   *)
(* the features and then the loop over the alignment records have been     *)
(* left by their normal end; after an abort nothing is written.            *)
(***************************************************************************)
C18_Step ==
    /\ out' # out => (pc = "output" /\ out = <<>>)
    /\ (pc' = "output" /\ pc # "output") => pc = "frag"
    /\ (pc' = "frag" /\ pc # "frag") =>
           (pc = "bam" /\ exit_status = 0 /\ d' = d)
    /\ (pc' = "bam" /\ pc # "bam") =>
           (pc = "gtf" /\ exit_status = 0 /\ tsspos' = tsspos)
    /\ (pc' = "exit" /\ pc \in {"gtf", "bam"}) =>
           (out' = <<>> /\ exit_status' # 0)
    /\ pc = "exit" => out' = out

C18_NoPartialOutput == [][C18_Step]_vars

\* the very first feature had an unsupported strand: the run is over with
\* status 1 and without a line of output
C18_Witness ==
    /\ pc = "exit"
    /\ exit_status = 1
    /\ n_feat = 1 /\ n_used = 0
    /\ Len(log) = 1 /\ log[1][1] = "bad strand found in GTF file"
    /\ out = <<>>

(***************************************************************************)
(* C19  Core window.  For each of the three channels the emitted positions *)
(* are exactly the core window: one line for every position from           *)
(* -upstream to +downstream inclusive, upstream + downstream + 1 lines,    *)
(* none for a margin position; the raw value on the line of position p of  *)
(* left and of right is the normalised count at array index                *)
(* p + upstream + margin.                                                  *)
(***************************************************************************)
\* the window the user asked for: up and down include the margin
CoreUp   == up - extra
CoreDown == down - extra

PositionsOf(label) == {out[k].pos : k \in LinesOf(label)}

RawAtIndex(label) ==
    \A k \in LinesOf(label) :
        out[k].raw = normalise(d[label][out[k].pos + up], n_reads, n_used)

C19_Core ==
    pc = "done" =>
        /\ \A i \in 1..3 :
             /\ PositionsOf(Labels[i]) = (0 - CoreUp)..CoreDown
             /\ Cardinality(LinesOf(Labels[i])) = CoreUp + CoreDown + 1
        /\ RawAtIndex("left")
        /\ RawAtIndex("right")

(***************************************************************************)
(* C20  Combined channel.  On every line of the combined channel, with j   *)
(* the array index of the line's position and h = fragment_size / 2, the   *)
(* raw value is left_norm[j - h] + right_norm[j + h]; this holds at every  *)
(* emitted index, the first and the last included.  Stated for runs with   *)
(* n_reads > 0 and n_tss_used > 0, where every value is a number.          *)
(***************************************************************************)
\* left_norm[j - h] + right_norm[j + h]
ShiftedSum(j, h) ==
    fadd(normalise(d.left[j - h], n_reads, n_used),
         normalise(d.right[j + h], n_reads, n_used))

\* the line k of out carries the shifted sum of its index
CombinedAt(k) ==
    LET j == out[k].pos + up
        h == frag_size \div 2
    IN  /\ j - h \in DOMAIN d.left
        /\ j + h \in DOMAIN d.right
        /\ out[k].raw = ShiftedSum(j, h)

C20_Combined ==
    (pc = "done" /\ n_reads > 0 /\ n_used > 0) =>
        \A k \in LinesOf("combined") : CombinedAt(k)

(***************************************************************************)
(* C21  Counters of the window builder.  Vocabulary.                       *)
(***************************************************************************)
FirstExon(f) == f.type = "exon" /\ f.exon_number = "1"

\* the claim of the window of feature f succeeds on the index as it is
ClaimSucceeds(f) ==
    /\ FirstExon(f)
    /\ f.iv.strand \in Strands
    /\ LET w == IF f.iv.strand = "+"
                THEN GenomicInterval(f.iv.chrom, f.iv.start - upstream,
                                     f.iv.start + downstream + 1, "+")
                ELSE GenomicInterval(f.iv.chrom, f.iv.end - 1 - downstream,
                                     f.iv.end + upstream, "-")
       IN  \A r \in Retained : ~ Overlap(r, w)

\* each step counts the feature it reads
CountersStep ==
    FeatureStep =>
        /\ n_feat' = n_feat + 1
        /\ n_tss' = n_tss + (IF FirstExon(feature') THEN 1 ELSE 0)
        /\ n_used' = n_used + (IF ClaimSucceeds(feature') THEN 1 ELSE 0)
        /\ ~ FirstExon(feature') => tsspos' = tsspos

CountersOrdered == n_used <= n_tss /\ n_tss <= n_feat

BadStrandAborted ==
    \E k \in 1..Len(log) : log[k][1] = "bad strand found in GTF file"

\* As claimed: after any prefix of the feature stream n_used <= n_tss <=
\* n_feat, and n_used >= 1 whenever n_tss >= 1.
C21_Claimed == CountersOrdered /\ (n_tss >= 1 => n_used >= 1)

(***************************************************************************)
(* C21  As the code has it: after any prefix of the feature stream n_feat  *)
(* is the number of features read, n_tss the number of first exons among   *)
(* them and n_used the number of successful claims; n_used <= n_tss <=     *)
(* n_feat always; n_used >= 1 whenever n_tss >= 1 and the run has not      *)
(* been aborted for a bad strand; a feature that is not a first exon       *)
(* changes neither n_tss, n_used nor the index.                            *)
(***************************************************************************)
CountersInv ==
    /\ CountersOrdered
    /\ (n_tss >= 1 /\ ~ BadStrandAborted) => n_used >= 1

C21_Counters ==
    /\ (n_feat = 0 /\ n_tss = 0 /\ n_used = 0)
    /\ [][CountersStep /\ CountersInv']_vars

\* a first exon and then a feature that is not one have been read
C21_Witness ==
    /\ pc = "gtf"
    /\ n_feat = 2 /\ n_tss = 1 /\ n_used = 1
    /\ ~ FirstExon(feature)
    /\ feature.type = "exon"
    /\ Cardinality(Retained) = 1

(***************************************************************************)
(* C22  Array length and origin.  Vocabulary.                              *)
(***************************************************************************)
\* both arrays have upstream + downstream + 1 + 2 * margin buckets, where
\* upstream and downstream are the extents the user asked for
ArraysWhole ==
    LET len == (upstream - extra) + (downstream - extra) + 1 + 2 * extra
    IN  /\ DOMAIN d.left = 0..(len - 1)
        /\ DOMAIN d.right = 0..(len - 1)

\* the step counts the record at index i of the array the table gives
CountedAt(i) ==
    d' = [d EXCEPT ![Bucket(HitWindow.strand, aln'.iv.strand)][i] = @ + 1]

\* As claimed: index 0 is the lowest coordinate of the window, whatever
\* its strand.
C22_Claimed_Step ==
    /\ ArraysWhole'
    /\ HitStep => CountedAt(FivePrime(aln'.iv) - HitWindow.start)

C22_Claimed == [][C22_Claimed_Step]_vars

(***************************************************************************)
(* C22  As the code has it: both arrays have length upstream + downstream  *)
(* + 1 + 2 * margin at all times, and index 0 is the 5' edge of the        *)
(* matched window: its lowest coordinate on "+", its highest on "-".  A    *)
(* mapped read whose 5' position is i bases inside that edge is counted at *)
(* index i.                                                                *)
(***************************************************************************)
\* the coordinate of the window that index 0 stands for
Origin(w) == IF w.strand = "+" THEN w.start ELSE w.end - 1

C22_Step ==
    /\ ArraysWhole'
    /\ HitStep =>
           LET w == HitWindow
               p == FivePrime(aln'.iv)
           IN  CountedAt(IF w.strand = "+" THEN p - Origin(w)
                                           ELSE Origin(w) - p)

C22_Origin == ArraysWhole /\ [][C22_Step]_vars

\* a read whose 5' position is the highest coordinate of a "-" window has
\* been counted at index 0
C22_Witness ==
    /\ pc = "bam"
    /\ aln.aligned
    /\ LET w == GetItem(tsspos, aln.iv.chrom, FivePrime(aln.iv))
       IN  /\ w.strand = "-"
           /\ FivePrime(aln.iv) = w.end - 1
           /\ d[Bucket("-", aln.iv.strand)][0] = 1

(***************************************************************************)
(* C23  Offsets stay inside the arrays.  When the accumulator is given the *)
(* extents the builder used, as process does, every mapped record that the *)
(* point query matches to a window has an offset in 0..up+down, for        *)
(* windows and reads of either strand; the out-of-bounds branch of         *)
(* make_density and its abort are never taken.                             *)
(***************************************************************************)
\* pos_in_window of the record of this step
Offset == Abs(FivePrime(aln'.iv) - Origin(HitWindow))

OutOfBoundsLogged ==
    \E k \in 1..Len(log) : log[k][1] = "pos_in_window out of bounds"

C23_Step ==
    /\ HitStep =>
           /\ Offset \in 0..(up + down)
           /\ Offset \in DOMAIN d.left /\ Offset \in DOMAIN d.right
           /\ pc' = "bam" /\ exit_status' = 0
    /\ ~ (pc = "bam" /\ pc' = "exit")
    /\ ~ OutOfBoundsLogged'

C23_InBounds == [][C23_Step]_vars

\* a read at the far edge of a window was counted in the last bucket
C23_Witness ==
    /\ pc = "bam"
    /\ aln.aligned
    /\ LET w == GetItem(tsspos, aln.iv.chrom, FivePrime(aln.iv))
       IN  /\ w # None
           /\ Abs(FivePrime(aln.iv) - Origin(w)) = up + down
           /\ d[Bucket(w.strand, aln.iv.strand)][up + down] = 1
    /\ exit_status = 0

(***************************************************************************)
(* C24  Conservation of the counts.  After any prefix of the alignment     *)
(* stream that has not aborted the buckets of left and right sum to        *)
(* n_reads_on_tss, n_reads_on_tss <= n_reads and every bucket is           *)
(* non-negative; no step makes a bucket smaller.                           *)
(***************************************************************************)
SumOf(x) == Total(x, Cardinality(DOMAIN x))

Conserved ==
    /\ SumOf(d.left) + SumOf(d.right) = n_reads_on_tss
    /\ n_reads_on_tss <= n_reads
    /\ \A j \in DOMAIN d.left : d.left[j] >= 0
    /\ \A j \in DOMAIN d.right : d.right[j] >= 0

NeverSmaller ==
    /\ \A j \in DOMAIN d.left : d'.left[j] >= d.left[j]
    /\ \A j \in DOMAIN d.right : d'.right[j] >= d.right[j]

C24_Step ==
    /\ NeverSmaller
    /\ ~ OutOfBoundsLogged' => Conserved'

C24_Conserved == Conserved /\ [][C24_Step]_vars

\* a mapped record has been counted on a window, the run goes on
C24_Witness ==
    /\ pc = "bam"
    /\ bam_pos >= 1
    /\ n_reads_on_tss >= 1
    /\ n_reads_on_tss = n_reads
    /\ SumOf(d.left) + SumOf(d.right) = n_reads_on_tss
    /\ ~ OutOfBoundsLogged

(***************************************************************************)
(* C25  Safety of the estimator.  For arrays of length L >= 2E + 1 every   *)
(* pair of slices compared by determine_frag_size lies inside the arrays   *)
(* and has equal length, the list of candidates is never empty and the     *)
(* returned fragment size is an even integer in 0..2E; hence the two       *)
(* slices output adds into the combined array for an estimated size are    *)
(* in bounds and of equal length as well.                                  *)
(***************************************************************************)
\* the slices [b1 : b1 + n] of left and [b2 : b2 + n] of right are whole
SlicesFit(b1, b2, n) ==
    /\ 0 <= b1 /\ b1 + n <= ArrayLen
    /\ 0 <= b2 /\ b2 + n <= ArrayLen
    /\ Len(Slice(d.left, b1, b1 + n)) = n
    /\ Len(Slice(d.right, b2, b2 + n)) = n

C25_Safe ==
    (EstimatorDone /\ ArrayLen >= 2 * extra + 1) =>
        LET n == ArrayLen - 2 * extra - 1
            h == frag_size \div 2
        IN  /\ \A s \in Shifts : SlicesFit(extra - s + 1, extra + s + 1, n)
            /\ Len(peak_dist) = extra + 1
            /\ optimal_shift # <<>>
            /\ exit_status = 0
            /\ frag_size \in {2 * s : s \in Shifts}
            /\ SlicesFit(extra - h + 1, extra + h + 1, n)

====
